---- MODULE Spec2Model ----
(***************************************************************************)
(* Scoring and aggregation pipeline of the Sanctuary Solutions report      *)
(* page (src/app/report/page.tsx) with the category scoring engines        *)
(* (lib/scoring/ether.ts, water.ts, air.ts) and the measurement table the  *)
(* technician page writes.                                                 *)
(*                                                                         *)
(* Numbers.  Measurement values and thresholds are JavaScript doubles in   *)
(* the source.  Here a measurement value is an integer count of TENTHS of  *)
(* the metric's unit (CO2 = 800 ppm is 8000, Cl = 0.8 ppm is 8), and every *)
(* threshold literal of the source is written in tenths with the source    *)
(* literal in a comment.  Arithmetic inside the scoring functions is exact *)
(* rational arithmetic (Rat).  Math.round rounds half up; when the exact   *)
(* value is a tie k + 1/2 the double the program rounds may lie just below *)
(* the tie (0*0.45 + 6*0.35 + 2*0.2 is 2.4999999999999996 and rounds to 2),*)
(* so at an exact tie MathRound admits both neighbours.  Every function    *)
(* that ends in Math.round therefore yields the SET of its outcomes.       *)
(***************************************************************************)
EXTENDS Integers, Sequences, FiniteSets, TLC

\* ------------------------------------------------------------------ bounds
MaxReadings == 3         \* rows in the measurement table
MaxValue == 26           \* metricScore inputs: value in 0..MaxValue
MaxThreshold == 9        \* metricScore inputs: goodMax < fairMax <= MaxThreshold
MaxCategoryScore == 100  \* overallScore inputs: category scores 0..MaxCategoryScore
MaxTime == 32            \* the clock runs from day 0 to day MaxTime
MaxProperties == 3       \* rows the New Property page inserts into the property table
MaxRooms == 7            \* room rows ever inserted for the property of the detail page
MaxCaptured == 2         \* rows the capture form inserts into the measurement table

\* ------------------------------------------------------- exact rationals
RECURSIVE GCD(_, _)
GCD(a, b) == IF b = 0 THEN a ELSE GCD(b, a % b)

Abs(x) == IF x < 0 THEN -x ELSE x

\* the rational n/d (d # 0) in lowest terms with a positive denominator
Rat(n, d) ==
  LET g == GCD(Abs(n), Abs(d))
      s == IF d < 0 THEN -1 ELSE 1
  IN  [n |-> s * (n \div g), d |-> s * (d \div g)]

R(i) == [n |-> i, d |-> 1]
RatAdd(x, y) == Rat(x.n * y.d + y.n * x.d, x.d * y.d)
RatSub(x, y) == Rat(x.n * y.d - y.n * x.d, x.d * y.d)
RatMul(x, y) == Rat(x.n * y.n, x.d * y.d)
RatLeq(x, y) == x.n * y.d <= y.n * x.d
RatMin(x, y) == IF RatLeq(x, y) THEN x ELSE y
RatMax(x, y) == IF RatLeq(x, y) THEN y ELSE x
Floor(x) == x.n \div x.d

\* Math.round of a double whose exact value is x
MathRound(x) ==
  LET fl == Floor(x)
      twiceFrac == 2 * (x.n - fl * x.d)
  IN  IF twiceFrac = x.d THEN {fl, fl + 1}
      ELSE IF twiceFrac > x.d THEN {fl + 1}
      ELSE {fl}

\* ------------------------------------------------------------- catalog
MetricKey == {"CO2", "PM25", "PM10", "VOCs", "Humidity", "Temp",
              "TDS", "Cl", "pH", "MagField", "ElectricField", "RF"}

\* THRESHOLDS (SaSo v1.1), in tenths of the unit
THRESHOLDS ==
  [k \in MetricKey |->
     CASE k = "CO2"           -> [goodMax |-> 8000, fairMax |-> 12000]  \* 800, 1200
       [] k = "PM25"          -> [goodMax |-> 90,   fairMax |-> 200]    \* 9, 20
       [] k = "PM10"          -> [goodMax |-> 300,  fairMax |-> 500]    \* 30, 50
       [] k = "VOCs"          -> [goodMax |-> 2000, fairMax |-> 5000]   \* 200, 500
       [] k = "Humidity"      -> [goodMax |-> 550,  fairMax |-> 650]    \* 55, 65
       [] k = "Temp"          -> [goodMax |-> 750,  fairMax |-> 800]    \* 75, 80
       [] k = "TDS"           -> [goodMax |-> 3000, fairMax |-> 5000]   \* 300, 500
       [] k = "Cl"            -> [goodMax |-> 8,    fairMax |-> 15]     \* 0.8, 1.5
       [] k = "pH"            -> [goodMax |-> 85,   fairMax |-> 95]     \* 8.5, 9.5
       [] k = "MagField"      -> [goodMax |-> 20,   fairMax |-> 40]     \* 2.0, 4.0
       [] k = "ElectricField" -> [goodMax |-> 5,    fairMax |-> 15]     \* 0.5, 1.5
       [] k = "RF"            -> [goodMax |-> 1,    fairMax |-> 10]]    \* 0.1, 1.0

\* variant: the water and ether weights exchanged
OVERALL_WEIGHTS_swapped == [air |-> Rat(45, 100), water |-> Rat(2, 10), ether |-> Rat(35, 100)]

\* Overall category weights
OVERALL_WEIGHTS == [air |-> Rat(45, 100), water |-> Rat(35, 100), ether |-> Rat(2, 10)]

getCategoryFromMetric(metricKey) ==
  IF metricKey \in {"CO2", "PM25", "PM10", "VOCs", "Humidity", "Temp"} THEN "air"
  ELSE IF metricKey \in {"TDS", "Cl", "pH"} THEN "water"
  ELSE IF metricKey \in {"MagField", "ElectricField", "RF"} THEN "ether"
  ELSE "air"

\* ------------------------------------------------------------ metricScore
\* variant: no Math.min(1, ...) in the poor band
metricScore_noClamp(value, goodMax, fairMax) ==
  IF value <= goodMax THEN {100}
  ELSE IF value <= fairMax
       THEN LET t == Rat(value - goodMax, fairMax - goodMax)
            IN  MathRound(RatSub(R(100), RatMul(t, R(40))))
       ELSE LET t == Rat(value - fairMax, fairMax)
            IN  MathRound(RatSub(R(60), RatMul(t, R(60))))

\* variant: the poor band adds t * 60 instead of subtracting it
metricScore_risingPoorBand(value, goodMax, fairMax) ==
  IF value <= goodMax THEN {100}
  ELSE IF value <= fairMax
       THEN LET t == Rat(value - goodMax, fairMax - goodMax)
            IN  MathRound(RatSub(R(100), RatMul(t, R(40))))
       ELSE LET t == RatMin(R(1), Rat(value - fairMax, fairMax))
            IN  MathRound(RatAdd(R(60), RatMul(t, R(60))))

\* variant: the fair band falls by 50 instead of 40
metricScore_fair50(value, goodMax, fairMax) ==
  IF value <= goodMax THEN {100}
  ELSE IF value <= fairMax
       THEN LET t == Rat(value - goodMax, fairMax - goodMax)
            IN  MathRound(RatSub(R(100), RatMul(t, R(50))))
       ELSE LET t == RatMin(R(1), Rat(value - fairMax, fairMax))
            IN  MathRound(RatSub(R(60), RatMul(t, R(60))))

\* variant: the poor band measures the excess from goodMax
metricScore_poorFromGood(value, goodMax, fairMax) ==
  IF value <= goodMax THEN {100}
  ELSE IF value <= fairMax
       THEN LET t == Rat(value - goodMax, fairMax - goodMax)
            IN  MathRound(RatSub(R(100), RatMul(t, R(40))))
       ELSE LET t == RatMin(R(1), Rat(value - goodMax, fairMax))
            IN  MathRound(RatSub(R(60), RatMul(t, R(60))))

\* Map raw value to a 0-100 metric score based on good/fair thresholds
metricScore(value, goodMax, fairMax) ==
  IF value <= goodMax THEN {100}
  ELSE IF value <= fairMax
       THEN LET t == Rat(value - goodMax, fairMax - goodMax)
            IN  MathRound(RatSub(R(100), RatMul(t, R(40))))
       ELSE LET t == RatMin(R(1), Rat(value - fairMax, fairMax))
            IN  MathRound(RatSub(R(60), RatMul(t, R(60))))

\* ------------------------------------------------- lib/scoring/ether.ts
computeEtherScore(mag, electric, rf) ==
  LET magScore  == IF mag > 7 /\ mag <= 15 THEN 85          \* 0.7, 1.5
                   ELSE IF mag > 15 /\ mag <= 30 THEN 70    \* 1.5, 3
                   ELSE IF mag > 30 /\ mag <= 60 THEN 40    \* 3, 6
                   ELSE IF mag > 60 THEN 15
                   ELSE 100
      elecScore == IF electric > 50 /\ electric <= 200 THEN 85        \* 5, 20
                   ELSE IF electric > 200 /\ electric <= 500 THEN 70  \* 20, 50
                   ELSE IF electric > 500 /\ electric <= 1000 THEN 45 \* 50, 100
                   ELSE IF electric > 1000 THEN 20
                   ELSE 100
      rfScore   == IF rf > 10 /\ rf <= 100 THEN 85          \* 1, 10
                   ELSE IF rf > 100 /\ rf <= 500 THEN 65    \* 10, 50
                   ELSE IF rf > 500 /\ rf <= 2000 THEN 40   \* 50, 200
                   ELSE IF rf > 2000 THEN 15
                   ELSE 100
  IN  MathRound(Rat(magScore + elecScore + rfScore, 3))

\* ------------------------------------------------- lib/scoring/water.ts
\* variant: no `ph < 6.5` branch
computeWaterScore_phLowOk(tds, cl, ph) ==
  LET tdsScore == IF tds > 1500 /\ tds <= 3000 THEN 90
                  ELSE IF tds > 3000 /\ tds <= 4500 THEN 75
                  ELSE IF tds > 4500 /\ tds <= 6000 THEN 55
                  ELSE IF tds > 6000 /\ tds <= 8000 THEN 35
                  ELSE IF tds > 8000 THEN 15
                  ELSE 100
      clScore  == IF cl > 5 /\ cl <= 15 THEN 80
                  ELSE IF cl > 15 /\ cl <= 30 THEN 55
                  ELSE IF cl > 30 THEN 25
                  ELSE 100
      phScore  == IF ph > 85 /\ ph <= 95 THEN 80
                  ELSE IF ph > 95 THEN 30
                  ELSE 100
  IN  MathRound(RatAdd(RatAdd(RatMul(R(tdsScore), Rat(6, 10)),
                              RatMul(R(clScore), Rat(2, 10))),
                       RatMul(R(phScore), Rat(2, 10))))

computeWaterScore(tds, cl, ph) ==
  LET tdsScore == IF tds > 1500 /\ tds <= 3000 THEN 90      \* 150, 300
                  ELSE IF tds > 3000 /\ tds <= 4500 THEN 75 \* 300, 450
                  ELSE IF tds > 4500 /\ tds <= 6000 THEN 55 \* 450, 600
                  ELSE IF tds > 6000 /\ tds <= 8000 THEN 35 \* 600, 800
                  ELSE IF tds > 8000 THEN 15
                  ELSE 100
      clScore  == IF cl > 5 /\ cl <= 15 THEN 80             \* 0.5, 1.5
                  ELSE IF cl > 15 /\ cl <= 30 THEN 55       \* 1.5, 3
                  ELSE IF cl > 30 THEN 25
                  ELSE 100
      phScore  == IF ph < 65 THEN 40                        \* 6.5
                  ELSE IF ph > 85 /\ ph <= 95 THEN 80       \* 8.5, 9.5
                  ELSE IF ph > 95 THEN 30
                  ELSE 100
  IN  MathRound(RatAdd(RatAdd(RatMul(R(tdsScore), Rat(6, 10)),
                              RatMul(R(clScore), Rat(2, 10))),
                       RatMul(R(phScore), Rat(2, 10))))

\* --------------------------------------------------- lib/scoring/air.ts
co2Score(ppm) ==
  IF ppm <= 7000 THEN R(100)                                                     \* 700
  ELSE IF ppm <= 10000                                                           \* 1000
       THEN RatSub(R(100), RatMul(Rat(ppm - 7000, 3000), R(20)))                 \* 100 -> 80
  ELSE IF ppm <= 12000                                                           \* 1200
       THEN RatSub(R(80), RatMul(Rat(ppm - 10000, 2000), R(20)))                 \* 80 -> 60
  ELSE IF ppm <= 15000                                                           \* 1500
       THEN RatSub(R(60), RatMul(Rat(ppm - 12000, 3000), R(30)))                 \* 60 -> 30
  ELSE IF ppm <= 20000                                                           \* 2000
       THEN RatSub(R(30), RatMul(Rat(ppm - 15000, 5000), R(20)))                 \* 30 -> 10
  ELSE RatMax(R(0), RatSub(R(10), RatMul(Rat(ppm - 20000, 5000), R(10))))        \* 10 -> 0

pm25Score(v) ==
  IF v <= 90 THEN R(100)                                                         \* 9
  ELSE IF v <= 200                                                               \* 20
       THEN RatSub(R(100), RatMul(Rat(v - 90, 110), R(40)))                      \* 100 -> 60
  ELSE IF v <= 350                                                               \* 35
       THEN RatSub(R(60), RatMul(Rat(v - 200, 150), R(40)))                      \* 60 -> 20
  ELSE RatMax(R(0), RatSub(R(20), RatMul(Rat(v - 350, 10), Rat(15, 10))))        \* 20 -> 0

pm10Score(v) ==
  IF v <= 300 THEN R(100)                                                        \* 30
  ELSE IF v <= 500                                                               \* 50
       THEN RatSub(R(100), RatMul(Rat(v - 300, 200), R(60)))                     \* 100 -> 40
  ELSE RatMax(R(0), RatSub(R(40), RatMul(Rat(v - 500, 10), R(2))))               \* 40 -> 0

\* Final weighted Air Score
computeAirScore(co2, pm25, pm10) ==
  LET score == RatAdd(RatAdd(RatMul(co2Score(co2), Rat(5, 10)),
                             RatMul(pm25Score(pm25), Rat(25, 100))),
                      RatMul(pm10Score(pm10), Rat(25, 100)))
  IN  MathRound(score)

\* ------------------------------------------------ ReportPage.overallScore
overallScore_of(air, water, ether) ==
  MathRound(RatAdd(RatAdd(RatMul(R(air), OVERALL_WEIGHTS.air),
                          RatMul(R(water), OVERALL_WEIGHTS.water)),
                   RatMul(R(ether), OVERALL_WEIGHTS.ether)))

\* variant: the bands of scoreToColor (85 / 70 / 50) instead of 90 / 75 / 60 / 45
scoreToLabel_colorBands(score) ==
  IF score >= 85 THEN "Excellent"
  ELSE IF score >= 70 THEN "Good"
  ELSE IF score >= 50 THEN "Fair"
  ELSE IF score >= 45 THEN "Poor"
  ELSE "Very Poor"

scoreToLabel(score) ==
  IF score >= 90 THEN "Excellent"
  ELSE IF score >= 75 THEN "Good"
  ELSE IF score >= 60 THEN "Fair"
  ELSE IF score >= 45 THEN "Poor"
  ELSE "Very Poor"

\* ------------------------- older report page: weights, weightedCategoryScore
CategoryKey == {"air", "water", "ether"}

\* variant: PM10 weighted 0.25 as in the air engine
WEIGHTS_AIR_heavyPM10 ==
  [k \in {"CO2", "PM25", "PM10", "VOCs", "Humidity", "Temp"} |->
     CASE k = "CO2"      -> Rat(25, 100)
       [] k = "PM25"     -> Rat(25, 100)
       [] k = "PM10"     -> Rat(25, 100)
       [] k = "VOCs"     -> Rat(2, 10)
       [] k = "Humidity" -> Rat(1, 10)
       [] k = "Temp"     -> Rat(1, 10)]

\* Weights for category scoring (v1.1)
WEIGHTS_AIR ==
  [k \in {"CO2", "PM25", "PM10", "VOCs", "Humidity", "Temp"} |->
     CASE k = "CO2"      -> Rat(25, 100)
       [] k = "PM25"     -> Rat(25, 100)
       [] k = "PM10"     -> Rat(1, 10)
       [] k = "VOCs"     -> Rat(2, 10)
       [] k = "Humidity" -> Rat(1, 10)
       [] k = "Temp"     -> Rat(1, 10)]

WEIGHTS_WATER ==
  [k \in {"TDS", "Cl", "pH"} |->
     CASE k = "TDS" -> Rat(4, 10) [] k = "Cl" -> Rat(3, 10) [] k = "pH" -> Rat(3, 10)]

WEIGHTS_ETHER ==
  [k \in {"MagField", "ElectricField", "RF"} |->
     CASE k = "MagField" -> Rat(3, 10) [] k = "ElectricField" -> Rat(3, 10) [] k = "RF" -> Rat(4, 10)]

\* the loop of weightedCategoryScore over the keys of `weights`: <<totalWeight, sum>>.
\* A score that is missing from metricScores (null) counts as 0: metricScores[k] ?? 0
RECURSIVE weightedLoop(_, _, _)
weightedLoop(metricScores, weights, keys) ==
  IF keys = {} THEN <<R(0), R(0)>>
  ELSE LET k == CHOOSE x \in keys : TRUE
           rest == weightedLoop(metricScores, weights, keys \ {k})
           w == weights[k]
           sc == IF metricScores[k] = {} THEN 0 ELSE CHOOSE v \in metricScores[k] : TRUE
       IN  <<RatAdd(rest[1], w), RatAdd(rest[2], RatMul(R(sc), w))>>

\* Weighted category score using metric scores
weightedCategoryScore(metricScores, weights) ==
  LET acc == weightedLoop(metricScores, weights, DOMAIN weights)
      totalWeight == acc[1]
      sum == acc[2]
  IN  IF totalWeight.n > 0
      THEN MathRound(Rat(sum.n * totalWeight.d, sum.d * totalWeight.n))
      ELSE {0}

\* ===================================================================== state
VARIABLES
  measurement,    \* the measurement table (rows of the one property), in the order a select returns them
  loading,        \* ReportPage state
  property,       \* ReportPage state: "none" or the loaded property id
  measurements,   \* ReportPage state: the loaded MeasurementRow list
  rooms,          \* ReportPage state: the loaded room list
  error,          \* ReportPage state: "none" or the message
  M,              \* useMemo: aggregated value per metric
  metricScores,   \* useMemo
  airScore,       \* useMemo
  waterScore,     \* useMemo
  etherScore,     \* useMemo
  overallScore,   \* useMemo
  call,           \* frame of a direct call of a pure scoring function (function, arguments, result)
  token,          \* the token parameter of the report URL (NoToken when the URL has none)
  report_access,  \* the report_access table
  now,            \* the clock that new Date() reads
  property_table, \* the property table: rows inserted by the New Property page
  room,           \* the room table
  room_seq,       \* number of room rows inserted so far (source of fresh room ids)
  saving,         \* NewProperty state
  submitError,    \* NewProperty state `error`: "none" or the message
  propertyId,     \* PropertyDetail: the id in the route (0 when the page is not mounted)
  techRooms,      \* PropertyDetail state `rooms`
  form            \* PropertyDetail state `form`

vars == <<measurement, loading, property, measurements, rooms, error,
          M, metricScores, airScore, waterScore, etherScore, overallScore, call,
          token, report_access, now,
          property_table, room, room_seq, saving, submitError, propertyId, techRooms, form>>

pageVars == <<loading, property, measurements, rooms, error,
              M, metricScores, airScore, waterScore, etherScore, overallScore>>

linkVars == <<token, report_access, now>>

techVars == <<property_table, room, room_seq, saving, submitError, propertyId, techRooms, form>>

\* ------------------------------------------------------------- the store
PropertyId == "p1"
RoomIds == <<"r1">>      \* room table of the property, by order_index

\* (metric, value in tenths) pairs a writer of the measurement table supplies.
\* "Radon" is a key outside the catalog; (Cl, -10) is a negative reading;
\* (PM25, 100000) is a reading far above every threshold.
ReadingInputs ==
  { <<"CO2", 8000>>, <<"CO2", 12000>>,
    <<"PM25", 90>>, <<"PM25", 200>>, <<"PM25", 100000>>,
    <<"PM10", 300>>, <<"PM10", 500>>,
    <<"TDS", 0>>, <<"TDS", 3000>>,
    <<"MagField", 8>>, <<"MagField", 70>>,
    <<"Radon", 50>>,
    <<"Cl", -10>> }

MeasurementRow(metric, value, room_id) ==
  [property_id |-> PropertyId, room_id |-> room_id,
   category |-> getCategoryFromMetric(metric), metric |-> metric, value |-> value]

\* the rows a select on the measurement table returns for .eq("property_id", pid)
RECURSIVE selectMeasurements(_, _)
selectMeasurements(rows, pid) ==
  IF rows = <<>> THEN <<>>
  ELSE IF Head(rows).property_id = pid
       THEN <<Head(rows)>> \o selectMeasurements(Tail(rows), pid)
       ELSE selectMeasurements(Tail(rows), pid)

\* ------------------------------------------- ReportPage.M (aggregation)
\* number | null: null is the empty set, the number n is {n}
null == {}

\* variant: the last reading of a metric wins
RECURSIVE aggregateBase_lastWins(_, _)
aggregateBase_lastWins(rows, base) ==
  IF rows = <<>> THEN base
  ELSE LET row == Head(rows)
           key == row.metric
       IN  IF key \notin DOMAIN base
           THEN aggregateBase_lastWins(Tail(rows), base)
           ELSE aggregateBase_lastWins(Tail(rows), [base EXCEPT ![key] = {row.value}])

\* variant: a key outside the catalog ends the loop (break instead of continue)
RECURSIVE aggregateBase_breakOnUnknown(_, _)
aggregateBase_breakOnUnknown(rows, base) ==
  IF rows = <<>> THEN base
  ELSE LET row == Head(rows)
           key == row.metric
       IN  IF key \notin DOMAIN base
           THEN base
           ELSE LET current == base[key]
                IN  IF current = null \/ (\E c \in current : row.value > c)
                    THEN aggregateBase_breakOnUnknown(Tail(rows), [base EXCEPT ![key] = {row.value}])
                    ELSE aggregateBase_breakOnUnknown(Tail(rows), base)

RECURSIVE aggregateBase(_, _)
aggregateBase(rows, base) ==
  IF rows = <<>> THEN base
  ELSE LET row == Head(rows)
           key == row.metric
       IN  IF key \notin DOMAIN base
           THEN aggregateBase(Tail(rows), base)
           ELSE LET current == base[key]
                IN  IF current = null \/ (\E c \in current : row.value > c)
                    THEN aggregateBase(Tail(rows), [base EXCEPT ![key] = {row.value}])
                    ELSE aggregateBase(Tail(rows), base)

aggregate(rows) ==
  LET base == aggregateBase(rows, [k \in MetricKey |-> null])
  IN  [k \in MetricKey |-> IF base[k] = null THEN 0 ELSE CHOOSE v \in base[k] : TRUE]

\* ---------------------------------------------- the memos of one render
\* all functions f on keys with f[k] \in F[k]
RECURSIVE Choices(_, _)
Choices(F, keys) ==
  IF keys = {} THEN { <<>> }
  ELSE LET k == CHOOSE x \in keys : TRUE
       IN  { (k :> v) @@ g : v \in F[k], g \in Choices(F, keys \ {k}) }

metricScoresOf(m) ==
  Choices([k \in MetricKey |-> metricScore(m[k], THRESHOLDS[k].goodMax, THRESHOLDS[k].fairMax)],
          MetricKey)

airScoreOf(m) == computeAirScore(m["CO2"], m["PM25"], m["PM10"])
waterScoreOf(m) == computeWaterScore(m["TDS"], m["Cl"], m["pH"])
etherScoreOf(m) == computeEtherScore(m["MagField"], m["ElectricField"], m["RF"])

\* the render that follows a change of `measurements`
Render(rows) ==
  /\ M' = aggregate(rows)
  /\ metricScores' \in metricScoresOf(M')
  /\ airScore' \in airScoreOf(M')
  /\ waterScore' \in waterScoreOf(M')
  /\ etherScore' \in etherScoreOf(M')
  /\ overallScore' \in overallScore_of(airScore', waterScore', etherScore')

NoCall == [fn |-> "none"]

\* ReportPage on mount: useState initial values and the first render's memos
InitPage ==
  /\ loading = TRUE
  /\ property = "none"
  /\ measurements = <<>>
  /\ rooms = <<>>
  /\ error = "none"
  /\ M = aggregate(<<>>)
  /\ metricScores \in metricScoresOf(M)
  /\ airScore \in airScoreOf(M)
  /\ waterScore \in waterScoreOf(M)
  /\ etherScore \in etherScoreOf(M)
  /\ overallScore \in overallScore_of(airScore, waterScore, etherScore)

\* ------------------------------------------------ technician pages: catalog
\* Pretty label (UI) -> raw key (DB) -> locked unit (labels left out)
metricOptions ==
  [air   |-> << [key |-> "CO2", unit |-> "ppm"], [key |-> "PM25", unit |-> "ug/m3"],
                [key |-> "PM10", unit |-> "ug/m3"], [key |-> "VOCs", unit |-> "ppb"],
                [key |-> "Humidity", unit |-> "%"], [key |-> "Temp", unit |-> "F"] >>,
   water |-> << [key |-> "TDS", unit |-> "ppm"], [key |-> "Cl", unit |-> "ppm"],
                [key |-> "pH", unit |-> ""] >>,
   ether |-> << [key |-> "MagField", unit |-> "mG"], [key |-> "ElectricField", unit |-> "V/m"],
                [key |-> "RF", unit |-> "mW/m2"] >>]

\* PropertyDetail: useState initial value of form (room_id 0 is the empty selection)
InitForm ==
  [room_id |-> 0, category |-> "air", metric |-> metricOptions.air[1].key,
   unit |-> metricOptions.air[1].unit, value |-> ""]

\* empty property and room tables, New Property page on mount, no detail page
InitNoTech ==
  /\ property_table = {}
  /\ room = {}
  /\ room_seq = 0
  /\ saving = FALSE
  /\ submitError = "none"
  /\ propertyId = 0
  /\ techRooms = <<>>
  /\ form = InitForm

\* params.get("token"): null when the URL has no token parameter
NoToken == "none"

\* if (token): null and the empty string are falsy
hasToken == token # NoToken /\ token # ""

\* a report URL without token, an empty report_access table
InitNoLink ==
  /\ token = NoToken
  /\ report_access = {}
  /\ now = 0

Init ==
  /\ measurement = <<>>
  /\ InitPage
  /\ call = NoCall
  /\ InitNoLink
  /\ InitNoTech

\* ------------------------------------------------------------- actions
\* a row is inserted into the measurement table (technician page, handleAddMeasurement)
handleAddMeasurement ==
  /\ Len(measurement) < MaxReadings
  /\ \E inp \in ReadingInputs, i \in 1..Len(RoomIds) :
       measurement' = Append(measurement, MeasurementRow(inp[1], inp[2], RoomIds[i]))
  /\ UNCHANGED <<pageVars, call, linkVars, techVars>>

\* fetchData, no token in the URL: the latest property cannot be loaded
fetchDataPropertyError ==
  /\ loading = TRUE
  /\ ~hasToken
  /\ error' = "Unable to load latest property."
  /\ loading' = FALSE
  /\ UNCHANGED <<measurement, property, measurements, rooms, M, metricScores,
                 airScore, waterScore, etherScore, overallScore, call, linkVars, techVars>>

\* fetchData: the property loads, the measurement query fails
fetchDataMeasurementError ==
  /\ loading = TRUE
  /\ ~hasToken
  /\ property' = PropertyId
  /\ error' = "Unable to load measurements for this property."
  /\ loading' = FALSE
  /\ UNCHANGED <<measurement, measurements, rooms, M, metricScores,
                 airScore, waterScore, etherScore, overallScore, call, linkVars, techVars>>

\* fetchData: property and measurements load; the room query succeeds or fails
fetchDataLoaded ==
  /\ loading = TRUE
  /\ ~hasToken
  /\ property' = PropertyId
  /\ measurements' = selectMeasurements(measurement, PropertyId)
  /\ \E roomError \in BOOLEAN : rooms' = IF roomError THEN <<>> ELSE RoomIds
  /\ loading' = FALSE
  /\ Render(measurements')
  /\ UNCHANGED <<measurement, error, call, linkVars, techVars>>

fetchData == fetchDataPropertyError \/ fetchDataMeasurementError \/ fetchDataLoaded

Next == handleAddMeasurement \/ fetchData

Spec == Init /\ [][Next]_vars

\* the report body (scores, labels, summaries) is rendered
reportShown == ~loading /\ property # "none"

\* ============================================ direct calls of metricScore
\* inputs: every goodMax < fairMax up to MaxThreshold and the CO2 thresholds,
\* every value up to MaxValue and some values far above 2 * fairMax
ScoreThresholds ==
  { <<g, f>> \in (0..MaxThreshold) \X (0..MaxThreshold) : g < f } \cup { <<800, 1200>> }
ScoreValues == (0..MaxValue) \cup {800, 1000, 1200, 1800, 2400, 1000000}

InitScore ==
  /\ measurement = <<>>
  /\ InitPage
  /\ InitNoLink
  /\ InitNoTech
  /\ \E th \in ScoreThresholds, v \in ScoreValues :
       call = [fn |-> "metricScore", value |-> v, goodMax |-> th[1], fairMax |-> th[2],
               ret |-> null]

callMetricScore ==
  /\ call.fn = "metricScore"
  /\ call.ret = null
  /\ \E s \in metricScore(call.value, call.goodMax, call.fairMax) :
       call' = [call EXCEPT !.ret = {s}]
  /\ UNCHANGED <<measurement, pageVars, linkVars, techVars>>

NextScore == callMetricScore

SpecScore == InitScore /\ [][NextScore]_vars

\* a call of metricScore has returned
scoreReturned == call.fn = "metricScore" /\ call.ret # null

\* ========================================== direct calls of overallScore
InitOverall ==
  /\ measurement = <<>>
  /\ InitPage
  /\ InitNoLink
  /\ InitNoTech
  /\ \E a \in 0..MaxCategoryScore, w \in 0..MaxCategoryScore, e \in 0..MaxCategoryScore :
       call = [fn |-> "overallScore", air |-> a, water |-> w, ether |-> e, ret |-> null]

callOverallScore ==
  /\ call.fn = "overallScore"
  /\ call.ret = null
  /\ \E s \in overallScore_of(call.air, call.water, call.ether) :
       call' = [call EXCEPT !.ret = {s}]
  /\ UNCHANGED <<measurement, pageVars, linkVars, techVars>>

NextOverall == callOverallScore

SpecOverall == InitOverall /\ [][NextOverall]_vars

overallReturned == call.fn = "overallScore" /\ call.ret # null

\* =================================================================== claims
SetMax(S) == CHOOSE x \in S : \A y \in S : x >= y

\* the values of the loaded readings of metric k
readingsOf(k) ==
  { measurements[i].value : i \in { j \in 1..Len(measurements) : measurements[j].metric = k } }

CategoryMetrics(cat) == { k \in MetricKey : getCategoryFromMetric(k) = cat }
noReadings(cat) == \A k \in CategoryMetrics(cat) : readingsOf(k) = {}

\* s is an integer nearest to the rational n/d (d > 0)
Nearest(s, n, d) == 2 * Abs(s * d - n) <= d

\* C1: for every catalog metric with at least one loaded reading, the aggregated
\* value M[metric] is the maximum of the property's readings of that metric
\* (not the average, the minimum or the last one); readings PM25 = 5 and
\* PM25 = 30 aggregate to 30.
C1_WorstCaseAggregation ==
  /\ \A k \in MetricKey : readingsOf(k) # {} => M[k] = SetMax(readingsOf(k))
  /\ aggregate(<<MeasurementRow("PM25", 50, "r1"), MeasurementRow("PM25", 300, "r2")>>)["PM25"] = 300
  /\ aggregate(<<MeasurementRow("PM25", 300, "r1"), MeasurementRow("PM25", 50, "")>>)["PM25"] = 300

\* the report shows two PM25 readings, the larger one loaded first
C1_Witness ==
  /\ reportShown
  /\ \E i, j \in 1..Len(measurements) :
       /\ i < j
       /\ measurements[i].metric = "PM25" /\ measurements[i].value = 200
       /\ measurements[j].metric = "PM25" /\ measurements[j].value = 90
  /\ M["PM25"] = 200

\* C2: for goodMax < fairMax, metricScore returns an integer in the closed range
\* 0..100 for every value, very large values included.
C2_ScoreInRange ==
  scoreReturned => \A s \in call.ret : s \in 0..100

\* a value far above 2 * fairMax has been scored
C2_Witness ==
  scoreReturned /\ call.value = 1000000 /\ call.fairMax = MaxThreshold /\ call.ret = {0}

\* C3: for goodMax < fairMax, metricScore is non-increasing in value: the score
\* returned for a value is at least every score of every larger value and at
\* most every score of every smaller value, across both band boundaries and
\* after rounding.
C3_Monotone ==
  scoreReturned =>
    \A s \in call.ret, v \in ScoreValues :
      /\ v > call.value => \A s2 \in metricScore(v, call.goodMax, call.fairMax) : s >= s2
      /\ v < call.value => \A s1 \in metricScore(v, call.goodMax, call.fairMax) : s1 >= s

\* a value in the poor band has been scored strictly between 0 and 60
C3_Witness ==
  /\ scoreReturned
  /\ call.value > call.fairMax /\ call.value < 2 * call.fairMax
  /\ \E s \in call.ret : 0 < s /\ s < 60

\* C4: for goodMax < fairMax, metricScore is exactly 100 for every value <= goodMax
\* (value = goodMax and value = 0 included), exactly 60 at value = fairMax, and
\* in between it is 100 - 40 * (value - goodMax) / (fairMax - goodMax) rounded
\* to a nearest integer.
C4_GoodAndFairBand ==
  scoreReturned =>
    LET v == call.value
        g == call.goodMax
        f == call.fairMax
    IN  /\ v <= g => call.ret = {100}
        /\ v = f => call.ret = {60}
        /\ (g < v /\ v <= f) =>
             \A s \in call.ret : Nearest(s, 100 * (f - g) - 40 * (v - g), f - g)

\* CO2 = 1000 ppm (halfway between 800 and 1200) has been scored 80
C4_Witness ==
  /\ scoreReturned
  /\ call.value = 1000 /\ call.goodMax = 800 /\ call.fairMax = 1200
  /\ call.ret = {80}

\* C5: above fairMax the score falls linearly from 60 and is clamped at 0: it is
\* 0 for every value >= 2 * fairMax (CO2 = 2400 with fairMax 1200), and for
\* fairMax < value < 2 * fairMax it is 60 - 60 * (value - fairMax) / fairMax
\* rounded to a nearest integer.
C5_PoorBand ==
  scoreReturned =>
    LET v == call.value
        f == call.fairMax
    IN  /\ v >= 2 * f => call.ret = {0}
        /\ (f < v /\ v < 2 * f) => \A s \in call.ret : Nearest(s, 60 * f - 60 * (v - f), f)

\* CO2 = 2400 ppm (double fairMax) has been scored 0
C5_Witness ==
  /\ scoreReturned
  /\ call.value = 2400 /\ call.goodMax = 800 /\ call.fairMax = 1200
  /\ call.ret = {0}

\* C6: a metric with zero readings is represented after aggregation by an
\* absent state that differs from the aggregated value of a metric whose
\* readings have maximum 0.
C6_AbsentIsExplicit ==
  reportShown =>
    \A k \in MetricKey :
      readingsOf(k) = {} => M[k] # aggregate(<<MeasurementRow(k, 0, "r1")>>)[k]

\* C7: when no metric of a category has any reading, the category score shown
\* is a distinct insufficient-data state, not a number in 0..100.
C7_InsufficientData ==
  reportShown =>
    /\ noReadings("water") => waterScore \notin 0..100
    /\ noReadings("air") => airScore \notin 0..100
    /\ noReadings("ether") => etherScore \notin 0..100

\* C8: the overall score is air * 0.45 + water * 0.35 + ether * 0.20 rounded to a
\* nearest integer, for all category scores in 0..100; air = 100, water = 60,
\* ether = 80 gives 82.
C8_OverallScore ==
  overallReturned =>
    /\ \A s \in call.ret :
         Nearest(s, 45 * call.air + 35 * call.water + 20 * call.ether, 100)
    /\ (call.air = 100 /\ call.water = 60 /\ call.ether = 80) => call.ret = {82}

\* overallScore(100, 60, 80) has returned 82
C8_Witness ==
  overallReturned /\ call.air = 100 /\ call.water = 60 /\ call.ether = 80 /\ call.ret = {82}

\* C9: with no water readings the overall score is the weights re-normalized
\* over air and ether: (air * 0.45 + ether * 0.20) / 0.65 rounded to a nearest
\* integer.
C9_Renormalized ==
  (reportShown /\ noReadings("water") /\ ~noReadings("air") /\ ~noReadings("ether")) =>
    Nearest(overallScore, 45 * airScore + 20 * etherScore, 65)

\* C10: aggregated values CO2 = 800, PM25 = 9 and PM10 = 30 score 100 each and
\* the air category score shown by the report is 100.
C10_ScenarioGoodMax ==
  (reportShown /\ M["CO2"] = 8000 /\ M["PM25"] = 90 /\ M["PM10"] = 300) =>
    /\ metricScores["CO2"] = 100
    /\ metricScores["PM25"] = 100
    /\ metricScores["PM10"] = 100
    /\ airScore = 100

\* C11: aggregated values CO2 = 1200, PM25 = 20 and PM10 = 50 score 60 each and
\* the air category score shown by the report is 60.
C11_ScenarioFairMax ==
  (reportShown /\ M["CO2"] = 12000 /\ M["PM25"] = 200 /\ M["PM10"] = 500) =>
    /\ metricScores["CO2"] = 60
    /\ metricScores["PM25"] = 60
    /\ metricScores["PM10"] = 60
    /\ airScore = 60

\* the loaded rows whose metric is a catalog key
RECURSIVE knownRows(_)
knownRows(rows) ==
  IF rows = <<>> THEN <<>>
  ELSE IF Head(rows).metric \in MetricKey
       THEN <<Head(rows)>> \o knownRows(Tail(rows))
       ELSE knownRows(Tail(rows))

\* C13: a reading whose metric key is not in the catalog is skipped: the
\* aggregation yields a value for exactly the catalog metrics, and it is the
\* aggregation of the reading list with the unknown-key readings removed.
C13_UnknownKeySkipped ==
  /\ DOMAIN M = MetricKey
  /\ M = aggregate(knownRows(measurements))

\* the report loaded a Radon reading before a catalog reading, and shows the latter
C13_Witness ==
  /\ reportShown
  /\ \E i, j \in 1..Len(measurements) :
       /\ i < j
       /\ measurements[i].metric = "Radon"
       /\ measurements[j].metric = "CO2"
       /\ M["CO2"] = measurements[j].value

\* C14: a reading with a negative value is skipped by aggregation: it never
\* becomes the aggregated value of its metric.
C14_InvalidValueSkipped ==
  \A k \in MetricKey : \A v \in readingsOf(k) : v < 0 => M[k] # v

\* all orderings of a list
Orderings(rows) ==
  LET n == Len(rows)
      perms == { p \in [1..n -> 1..n] : \A i, j \in 1..n : p[i] = p[j] => i = j }
  IN  { [i \in 1..n |-> rows[p[i]]] : p \in perms }

\* C15: aggregation depends only on the reading set: recomputing the map on the
\* loaded readings yields the same map, and every ordering of the loaded
\* reading list yields the same aggregated value for every metric.
C15_OrderIndependent ==
  \A rows \in Orderings(measurements) : aggregate(rows) = M

\* the report loaded two different CO2 readings, the smaller one last
C15_Witness ==
  /\ reportShown
  /\ Len(measurements) >= 2
  /\ measurements[Len(measurements)].metric = "CO2"
  /\ measurements[Len(measurements)].value = 8000
  /\ measurements[1].metric = "CO2"
  /\ measurements[1].value = 12000
  /\ M["CO2"] = 12000

\* C16 as stated: a never-measured metric is defaulted to 0 and gets metric
\* score 0, and a category with no readings gets the worst category score, 0.
C16_MissingScoredWorst ==
  reportShown =>
    /\ \A k \in MetricKey : readingsOf(k) = {} => (M[k] = 0 /\ metricScores[k] = 0)
    /\ noReadings("air") => airScore = 0
    /\ noReadings("water") => waterScore = 0
    /\ noReadings("ether") => etherScore = 0

\* C16 amended: a never-measured metric is defaulted to 0 and gets metric score
\* 100; a category with no readings gets category score 100 (air, ether) or
\* 88 (water, where pH 0 counts as acidic).
C16_MissingScoredAsZeroReading ==
  reportShown =>
    /\ \A k \in MetricKey : readingsOf(k) = {} => (M[k] = 0 /\ metricScores[k] = 100)
    /\ noReadings("air") => airScore = 100
    /\ noReadings("water") => waterScore = 88
    /\ noReadings("ether") => etherScore = 100

\* the report shows air readings only
C16_Witness ==
  /\ reportShown
  /\ ~noReadings("air") /\ noReadings("water") /\ noReadings("ether")
  /\ waterScore = 88 /\ etherScore = 100 /\ metricScores["TDS"] = 100

\* C17: every score of the report (each metric score, the three category scores
\* and the overall score) is an integer in 0..100, for every reading list:
\* none, zeros, negative and very large values.
C17_AllScoresInRange ==
  /\ \A k \in MetricKey : metricScores[k] \in 0..100
  /\ airScore \in 0..100
  /\ waterScore \in 0..100
  /\ etherScore \in 0..100
  /\ overallScore \in 0..100

\* the report shows a PM25 reading far above 2 * fairMax, scored 0
C17_Witness ==
  /\ reportShown
  /\ M["PM25"] = 100000
  /\ metricScores["PM25"] = 0
  /\ airScore < 100

\* ================================= direct calls of weightedCategoryScore
WeightsOf(cat) ==
  CASE cat = "air" -> WEIGHTS_AIR [] cat = "water" -> WEIGHTS_WATER [] cat = "ether" -> WEIGHTS_ETHER

\* a metric score handed to weightedCategoryScore: missing (null) or a number
MetricScoreInputs == {null, {0}, {60}, {100}}

InitCategory ==
  /\ measurement = <<>>
  /\ InitPage
  /\ InitNoLink
  /\ InitNoTech
  /\ \E cat \in CategoryKey :
       \E sc \in [DOMAIN WeightsOf(cat) -> MetricScoreInputs] :
         call = [fn |-> "weightedCategoryScore", category |-> cat, metricScores |-> sc,
                 ret |-> null]

callWeightedCategoryScore ==
  /\ call.fn = "weightedCategoryScore"
  /\ call.ret = null
  /\ \E s \in weightedCategoryScore(call.metricScores, WeightsOf(call.category)) :
       call' = [call EXCEPT !.ret = {s}]
  /\ UNCHANGED <<measurement, pageVars, linkVars, techVars>>

NextCategory == callWeightedCategoryScore

SpecCategory == InitCategory /\ [][NextCategory]_vars

categoryReturned == call.fn = "weightedCategoryScore" /\ call.ret # null

\* sums over a set of keys
RECURSIVE SumOver(_, _)
SumOver(f, keys) ==
  IF keys = {} THEN 0
  ELSE LET k == CHOOSE x \in keys : TRUE IN f[k] + SumOver(f, keys \ {k})

\* a weight in hundredths
Hundredths(w) == (w.n * 100) \div w.d

\* C12: a category score is the weighted average of the scores of the metrics in
\* the weight table, a metric with no available score being excluded from
\* numerator and denominator (not counted as score 0).
C12_MissingScoreExcluded ==
  categoryReturned =>
    LET weights == WeightsOf(call.category)
        present == { k \in DOMAIN weights : call.metricScores[k] # null }
        num == [k \in present |->
                  Hundredths(weights[k]) * (CHOOSE v \in call.metricScores[k] : TRUE)]
        den == [k \in present |-> Hundredths(weights[k])]
    IN  present # {} =>
          \A s \in call.ret : Nearest(s, SumOver(num, present), SumOver(den, present))

\* C19: every weight table sums to 1: the per-metric weights of air, of water
\* and of ether, and the three overall category weights.
C19_WeightsSumToOne ==
  /\ \A cat \in CategoryKey :
       LET w == WeightsOf(cat)
       IN  SumOver([k \in DOMAIN w |-> Hundredths(w[k])], DOMAIN w) = 100
  /\ Hundredths(OVERALL_WEIGHTS.air) + Hundredths(OVERALL_WEIGHTS.water)
       + Hundredths(OVERALL_WEIGHTS.ether) = 100
  /\ categoryReturned =>
       weightedLoop(call.metricScores, WeightsOf(call.category),
                    DOMAIN WeightsOf(call.category))[1] = R(1)

\* an air score has been computed from all six air metric scores
C19_Witness ==
  /\ categoryReturned
  /\ call.category = "air"
  /\ \A k \in DOMAIN WEIGHTS_AIR : call.metricScores[k] = {60}
  /\ call.ret = {60}

\* ========================================== direct calls of scoreToLabel
InitLabel ==
  /\ measurement = <<>>
  /\ InitPage
  /\ InitNoLink
  /\ InitNoTech
  /\ \E sc \in 0..MaxCategoryScore : call = [fn |-> "scoreToLabel", score |-> sc, ret |-> null]

callScoreToLabel ==
  /\ call.fn = "scoreToLabel"
  /\ call.ret = null
  /\ call' = [call EXCEPT !.ret = {scoreToLabel(call.score)}]
  /\ UNCHANGED <<measurement, pageVars, linkVars, techVars>>

NextLabel == callScoreToLabel

SpecLabel == InitLabel /\ [][NextLabel]_vars

labelReturned == call.fn = "scoreToLabel" /\ call.ret # null

\* the five labels from worst to best
LabelRank(label) ==
  CASE label = "Very Poor" -> 0 [] label = "Poor" -> 1 [] label = "Fair" -> 2
    [] label = "Good" -> 3 [] label = "Excellent" -> 4

\* C18: score >= 90 is Excellent, 75..89 Good, 60..74 Fair, 45..59 Poor, below 45
\* Very Poor; every score 0..100 gets exactly one of the five labels and a
\* higher score never gets a worse label.
C18_LabelBands ==
  labelReturned =>
    LET sc == call.score
    IN  /\ Cardinality(call.ret) = 1
        /\ call.ret \subseteq {"Excellent", "Good", "Fair", "Poor", "Very Poor"}
        /\ sc >= 90 <=> call.ret = {"Excellent"}
        /\ (75 <= sc /\ sc < 90) <=> call.ret = {"Good"}
        /\ (60 <= sc /\ sc < 75) <=> call.ret = {"Fair"}
        /\ (45 <= sc /\ sc < 60) <=> call.ret = {"Poor"}
        /\ sc < 45 <=> call.ret = {"Very Poor"}
        /\ \A hi \in sc..MaxCategoryScore, l \in call.ret :
             LabelRank(scoreToLabel(hi)) >= LabelRank(l)

\* score 89, just below the Excellent band, has been labelled Good
C18_Witness ==
  labelReturned /\ call.score = 89 /\ call.ret = {"Good"}

\* ================================== the report page opened through a link
\* a second, older property: PropertyId is the latest by created_at
OlderPropertyId == "p0"

\* the room table by property, by order_index
roomsOf(pid) == IF pid = PropertyId THEN RoomIds ELSE <<"r0">>

\* tokens a report URL can carry: none, an empty one, a stored one, an unknown one
StoredToken == "t1"
UrlTokens == {NoToken, "", StoredToken, "t2"}

\* rows of report_access(token, property_id, expires_at); expires_at is nullable
AccessRows ==
  { [token |-> StoredToken, property_id |-> pid, expires_at |-> e] :
      pid \in {OlderPropertyId, PropertyId},
      e \in {null} \cup { {t} : t \in 0..MaxTime } }

\* measurement table with rows of both properties
LinkMeasurement ==
  << [MeasurementRow("CO2", 12000, "r0") EXCEPT !.property_id = OlderPropertyId],
     MeasurementRow("CO2", 8000, "r1"),
     MeasurementRow("TDS", 3000, "r1") >>

InitAccess ==
  /\ measurement = LinkMeasurement
  /\ InitPage
  /\ call = NoCall
  /\ token \in UrlTokens
  /\ report_access \in { {} } \cup { {r} : r \in AccessRows }
  /\ now = 0
  /\ InitNoTech

\* .eq("token", token).single(): the row, when exactly one row matches
accessRowsOf(tok) == { r \in report_access : r.token = tok }

\* variant: the comparison of the expiration check reversed
linkExpired_reversed(accessRow, t) ==
  accessRow.expires_at # null /\ \A e \in accessRow.expires_at : e > t

\* accessRow.expires_at && new Date(accessRow.expires_at) < new Date()
linkExpired(accessRow, t) ==
  accessRow.expires_at # null /\ \A e \in accessRow.expires_at : e < t

\* time passes
Tick ==
  /\ now < MaxTime
  /\ now' = now + 1
  /\ UNCHANGED <<measurement, pageVars, call, token, report_access, techVars>>

\* fetchData with a token: the access query fails or does not return one row
fetchDataInvalidLink ==
  /\ loading = TRUE
  /\ hasToken
  /\ \E accessError \in BOOLEAN :
       accessError \/ Cardinality(accessRowsOf(token)) # 1
  /\ error' = "This link is invalid or expired."
  /\ loading' = FALSE
  /\ UNCHANGED <<measurement, property, measurements, rooms, M, metricScores,
                 airScore, waterScore, etherScore, overallScore, call, linkVars, techVars>>

\* fetchData with a token: the access row has expired
fetchDataExpiredLink ==
  /\ loading = TRUE
  /\ hasToken
  /\ \E accessRow \in accessRowsOf(token) :
       /\ Cardinality(accessRowsOf(token)) = 1
       /\ linkExpired(accessRow, now)
  /\ error' = "This link has expired."
  /\ loading' = FALSE
  /\ UNCHANGED <<measurement, property, measurements, rooms, M, metricScores,
                 airScore, waterScore, etherScore, overallScore, call, linkVars, techVars>>

\* propertyIdToLoad of a token that passed validation and the expiration check
propertyIdToLoad ==
  { accessRow.property_id : accessRow \in
      { r \in accessRowsOf(token) :
          Cardinality(accessRowsOf(token)) = 1 /\ ~linkExpired(r, now) } }

\* fetchData with a valid token: the property cannot be loaded by id
fetchDataByIdPropertyError ==
  /\ loading = TRUE
  /\ hasToken
  /\ propertyIdToLoad # {}
  /\ error' = "Unable to load property."
  /\ loading' = FALSE
  /\ UNCHANGED <<measurement, property, measurements, rooms, M, metricScores,
                 airScore, waterScore, etherScore, overallScore, call, linkVars, techVars>>

\* fetchData with a valid token: the property loads, the measurement query fails
fetchDataByIdMeasurementError ==
  /\ loading = TRUE
  /\ hasToken
  /\ \E pid \in propertyIdToLoad : property' = pid
  /\ error' = "Unable to load measurements for this property."
  /\ loading' = FALSE
  /\ UNCHANGED <<measurement, measurements, rooms, M, metricScores,
                 airScore, waterScore, etherScore, overallScore, call, linkVars, techVars>>

\* fetchData with a valid token: property and measurements load; the room query
\* succeeds or fails
fetchDataByIdLoaded ==
  /\ loading = TRUE
  /\ hasToken
  /\ \E pid \in propertyIdToLoad :
       /\ property' = pid
       /\ measurements' = selectMeasurements(measurement, pid)
       /\ \E roomError \in BOOLEAN : rooms' = IF roomError THEN <<>> ELSE roomsOf(pid)
  /\ loading' = FALSE
  /\ Render(measurements')
  /\ UNCHANGED <<measurement, error, call, linkVars, techVars>>

fetchDataWithToken ==
  \/ fetchDataInvalidLink
  \/ fetchDataExpiredLink
  \/ fetchDataByIdPropertyError
  \/ fetchDataByIdMeasurementError
  \/ fetchDataByIdLoaded

NextAccess == Tick \/ fetchData \/ fetchDataWithToken

SpecAccess == InitAccess /\ [][NextAccess]_vars

\* the URL's token matches no report_access row
noAccessRow == \A r \in report_access : r.token # token

\* the URL's token matches a row whose expires_at is earlier than the current time
expiredAccessRow ==
  \E r \in report_access :
    r.token = token /\ \E e \in r.expires_at : e < now

\* fetchData ends with an error, loading false and nothing loaded
fetchRejected ==
  /\ loading' = FALSE
  /\ error' # "none"
  /\ property' = "none"
  /\ measurements' = <<>>
  /\ rooms' = <<>>

\* C20 as stated: if the URL carries a token that matches no report_access row,
\* or one whose expires_at is earlier than now, fetchData ends with an error,
\* loading false, and no property, measurements or rooms loaded.
C20_BadTokenRejected ==
  [][ (loading /\ ~loading' /\ token # NoToken /\ (noAccessRow \/ expiredAccessRow))
        => fetchRejected ]_vars

\* C20, amended: the same for a non-empty token; an empty token parameter is
\* treated as no token.
C20_NonEmptyBadTokenRejected ==
  [][ (loading /\ ~loading' /\ token # NoToken /\ token # ""
         /\ (noAccessRow \/ expiredAccessRow))
        => fetchRejected ]_vars

\* an expired link has been opened and rejected, with measurements in the store
C20_Witness ==
  /\ ~loading
  /\ token = StoredToken
  /\ expiredAccessRow
  /\ error = "This link has expired."
  /\ property = "none"
  /\ measurements = <<>>
  /\ \E i \in 1..Len(measurement), r \in report_access :
       measurement[i].property_id = r.property_id

\* ===================================== share links: POST /api/magic-link
\* expires_at.setDate(expires_at.getDate() + 30)
LinkDays == 30

\* tokens randomUUID can return
LinkTokens == {"t1"}

\* variant: the link of the older route, with the token in the parameter t
magicLink_tParam(tok) == [path |-> "/report", param |-> "t", value |-> tok]

\* `${process.env.NEXT_PUBLIC_SITE_URL}/report?token=${token}`
magicLink(tok) == [path |-> "/report", param |-> "token", value |-> tok]

\* new URLSearchParams(window.location.search).get(name) for an opened link
searchParamsGet(link, name) == IF link.param = name THEN link.value ELSE NoToken

\* variant: a link that lasts 7 days
expiresAt_sevenDays(t) == t + 7

\* new Date() advanced by LinkDays days
expiresAt(t) == t + LinkDays

\* the route handler: property_id is the request body's field ("none" when missing)
POST(property_id) ==
  \/ /\ property_id = "none"
     /\ call' = [fn |-> "POST", property_id |-> property_id, at |-> now,
                 status |-> 400, ok |-> FALSE]
     /\ UNCHANGED report_access
  \/ /\ property_id # "none"
     /\ call' = [fn |-> "POST", property_id |-> property_id, at |-> now,
                 status |-> 500, ok |-> FALSE]
     /\ UNCHANGED report_access
  \/ /\ property_id # "none"
     /\ \E tok \in LinkTokens \ { r.token : r \in report_access } :
          /\ report_access' = report_access \cup
               { [token |-> tok, property_id |-> property_id,
                  expires_at |-> {expiresAt(now)}] }
          /\ call' = [fn |-> "POST", property_id |-> property_id, at |-> now,
                      status |-> 200, ok |-> TRUE, token |-> tok,
                      link |-> magicLink(tok), expires_at |-> expiresAt(now)]

\* a client other than the report page posts to the route, for the older
\* property or without property_id
postMagicLink ==
  /\ \E property_id \in {"none", OlderPropertyId} : POST(property_id)
  /\ UNCHANGED <<measurement, pageVars, token, now, techVars>>

\* ReportPage.generateLink: posts the id of the property shown
generateLink ==
  /\ property # "none"
  /\ POST(property)
  /\ UNCHANGED <<measurement, pageVars, token, now, techVars>>

\* the last response of the route carries a link
linkReturned == call.fn = "POST" /\ call.ok

\* the returned link is opened once the page shown has finished loading: the
\* report page mounts again with the link's query string
openLink ==
  /\ linkReturned
  /\ ~loading
  /\ token' = searchParamsGet(call.link, "token")
  /\ loading' = TRUE
  /\ property' = "none"
  /\ measurements' = <<>>
  /\ rooms' = <<>>
  /\ error' = "none"
  /\ Render(<<>>)
  /\ UNCHANGED <<measurement, call, report_access, now, techVars>>

InitLink ==
  /\ measurement = LinkMeasurement
  /\ InitPage
  /\ call = NoCall
  /\ InitNoLink
  /\ InitNoTech

NextLink ==
  \/ Tick
  \/ postMagicLink
  \/ generateLink
  \/ openLink
  \/ fetchData
  \/ fetchDataWithToken

SpecLink == InitLink /\ [][NextLink]_vars

\* the rows of the measurement table whose property_id is pid
rowsOfProperty(pid) == { i \in 1..Len(measurement) : measurement[i].property_id = pid }

\* the page has loaded exactly property pid: its measurements, and its rooms
\* (no rooms when the room query failed)
loadedExactly(pid) ==
  /\ property' = pid
  /\ Len(measurements') = Cardinality(rowsOfProperty(pid))
  /\ \A j \in 1..Len(measurements') :
       /\ measurements'[j].property_id = pid
       /\ \E i \in rowsOfProperty(pid) : measurement[i] = measurements'[j]
  /\ rooms' \in {roomsOf(pid), <<>>}

\* C21: a link returned by the route for property P (ok: true), opened on the
\* report page before it expires, carries the stored token, and the page loads
\* property P with exactly P's measurements and rooms, never another property.
C21_LinkRoundTrip ==
  [][ /\ (~loading /\ loading') =>
           /\ linkReturned
           /\ token' = call.token
           /\ \E r \in report_access :
                r.token = token' /\ r.property_id = call.property_id
      /\ (loading /\ ~loading' /\ hasToken) =>
           \A r \in report_access :
             (r.token = token /\ \A e \in r.expires_at : now <= e) =>
               /\ property' \in {"none", r.property_id}
               /\ error' = "none" => loadedExactly(r.property_id) ]_vars

\* a link for the older property has been opened and that property is shown
C21_Witness ==
  /\ linkReturned
  /\ call.property_id = OlderPropertyId
  /\ token = call.token
  /\ ~loading
  /\ error = "none"
  /\ property = OlderPropertyId
  /\ Len(measurements) = 1
  /\ measurements[1].property_id = OlderPropertyId
  /\ rooms = roomsOf(OlderPropertyId)

\* C22: a share link expires 30 days after the POST that created it: the page
\* does not report the token as expired up to 30 days after the POST and
\* rejects it at any later time.
C22_ExpiresAfter30Days ==
  [][ /\ linkReturned =>
           /\ call.expires_at = call.at + 30
           /\ \E r \in report_access :
                r.token = call.token /\ r.expires_at = {call.at + 30}
      /\ (loading /\ ~loading' /\ linkReturned /\ hasToken /\ token = call.token) =>
           /\ now <= call.at + 30 => error' # "This link has expired."
           /\ now > call.at + 30 =>
                /\ fetchRejected
                /\ error' \in {"This link has expired.",
                               "This link is invalid or expired."} ]_vars

\* a link has been opened on day 31 and rejected as expired
C22_Witness ==
  /\ linkReturned
  /\ token = call.token
  /\ now = call.at + 31
  /\ ~loading
  /\ error = "This link has expired."
  /\ property = "none"

\* ============================================ New Property page (technician)
\* variant: the default rooms of the older page
defaultRooms_older ==
  << [name |-> "Master Bedroom", type |-> "bedroom"],
     [name |-> "Bedroom 1", type |-> "bedroom"],
     [name |-> "Bedroom 2", type |-> "bedroom"],
     [name |-> "Bedroom 3", type |-> "bedroom"],
     [name |-> "Kitchen", type |-> "kitchen"],
     [name |-> "Living Room", type |-> "living"] >>

defaultRooms ==
  << [name |-> "Primary Bedroom", type |-> "bedroom"],
     [name |-> "Bedroom 2", type |-> "bedroom"],
     [name |-> "Bedroom 3", type |-> "bedroom"],
     [name |-> "Kitchen", type |-> "kitchen"],
     [name |-> "Living Room", type |-> "living"] >>

\* texts typed into the address field; the other fields are left empty
AddressInputs == {"", "12 Elm St"}

\* form.address || null
addressOrNull(text) == IF text = "" THEN null ELSE {text}

\* the id the property table gives to its next row
nextPropertyId == Cardinality(property_table) + 1

\* defaultRooms.map((r, index) => ...) as inserted, with ids after seq
roomRows(pid, seq) ==
  { [id |-> seq + i, property_id |-> pid, name |-> defaultRooms[i].name,
     type |-> defaultRooms[i].type, order_index |-> i - 1] : i \in 1..Len(defaultRooms) }

roomsPayload(pid) == roomRows(pid, room_seq)

\* handleSubmit: the property insert fails
handleSubmitPropertyError ==
  /\ ~saving
  /\ nextPropertyId <= MaxProperties
  /\ submitError' = "Failed to create property"
  /\ saving' = FALSE
  /\ UNCHANGED <<property_table, room, room_seq>>

\* handleSubmit: the property is inserted, the insert of the rooms fails
handleSubmitRoomsError ==
  /\ ~saving
  /\ nextPropertyId <= MaxProperties
  /\ \E text \in AddressInputs :
       property_table' = property_table \cup
         { [id |-> nextPropertyId, address |-> addressOrNull(text)] }
  /\ submitError' = "Failed to create property"
  /\ saving' = FALSE
  /\ UNCHANGED <<room, room_seq>>

\* handleSubmit: property and rooms are inserted; the page redirects
handleSubmitCreated ==
  /\ ~saving
  /\ nextPropertyId <= MaxProperties
  /\ \E text \in AddressInputs :
       property_table' = property_table \cup
         { [id |-> nextPropertyId, address |-> addressOrNull(text)] }
  /\ room' = room \cup roomsPayload(nextPropertyId)
  /\ room_seq' = room_seq + Len(defaultRooms)
  /\ submitError' = "none"
  /\ saving' = TRUE

handleSubmit ==
  /\ \/ handleSubmitPropertyError
     \/ handleSubmitRoomsError
     \/ handleSubmitCreated
  /\ UNCHANGED <<measurement, pageVars, call, linkVars, propertyId, techRooms, form>>

\* the New Property page is opened again after a redirect
mountNewProperty ==
  /\ saving
  /\ saving' = FALSE
  /\ submitError' = "none"
  /\ UNCHANGED <<measurement, pageVars, call, linkVars,
                 property_table, room, room_seq, propertyId, techRooms, form>>

InitNewProperty ==
  /\ measurement = <<>>
  /\ InitPage
  /\ call = NoCall
  /\ InitNoLink
  /\ InitNoTech

NextNewProperty == handleSubmit \/ mountNewProperty

SpecNewProperty == InitNewProperty /\ [][NextNewProperty]_vars

\* rooms of a property in the room table of the next state / of this state
roomsOfProperty(pid) == { r \in room : r.property_id = pid }

\* C23: a successful handleSubmit inserts exactly one property row and exactly
\* five rooms for it: Primary Bedroom, Bedroom 2, Bedroom 3, Kitchen, Living
\* Room with order_index 0..4 in that order.
C23_DefaultRoomsCreated ==
  [][ (~saving /\ saving') =>
        \E p \in property_table' :
          /\ p \notin property_table
          /\ property_table' = property_table \cup {p}
          /\ Cardinality(room' \ room) = 5
          /\ \A r \in room' \ room : r.property_id = p.id
          /\ \E r \in room' \ room : r.order_index = 0 /\ r.name = "Primary Bedroom"
          /\ \E r \in room' \ room : r.order_index = 1 /\ r.name = "Bedroom 2"
          /\ \E r \in room' \ room : r.order_index = 2 /\ r.name = "Bedroom 3"
          /\ \E r \in room' \ room : r.order_index = 3 /\ r.name = "Kitchen"
          /\ \E r \in room' \ room : r.order_index = 4 /\ r.name = "Living Room"
          /\ \A r \in room : r.property_id # p.id ]_vars

\* a second property has been created with its five rooms
C23_Witness ==
  /\ saving
  /\ submitError = "none"
  /\ \E p \in property_table :
       /\ p.id = 2
       /\ Cardinality(roomsOfProperty(2)) = 5
       /\ Cardinality(roomsOfProperty(1)) = 5

\* C27: property creation is all-or-nothing: whenever handleSubmit has
\* finished, every property row in the store has its default rooms.
C27_AllOrNothing ==
  \A p \in property_table : Cardinality(roomsOfProperty(p.id)) = Len(defaultRooms)

\* ================================= property detail page: room management
\* every sequence of the given rows with ascending order_index: what
\* .order("order_index", { ascending: true }) can return
RECURSIVE orderedByIndex(_)
orderedByIndex(rows) ==
  IF rows = {} THEN { <<>> }
  ELSE UNION { { <<r>> \o rest : rest \in orderedByIndex(rows \ {r}) } :
               r \in { x \in rows : \A y \in rows : x.order_index <= y.order_index } }

\* texts typed into the new-room field
RoomNameInputs == {"", "  ", " Office "}

\* newRoom.trim()
trim(text) == IF text = " Office " THEN "Office" ELSE ""

\* fetchAll (the room query): the page loads the rooms of its property
fetchAll ==
  /\ propertyId # 0
  /\ techRooms' \in orderedByIndex({ r \in room : r.property_id = propertyId })
  /\ UNCHANGED <<measurement, pageVars, call, linkVars,
                 property_table, room, room_seq, saving, submitError, propertyId, form>>

\* the row handleAddRoom inserts
newRoomRow(name) ==
  [id |-> room_seq + 1, property_id |-> propertyId, name |-> trim(name), type |-> "other",
   order_index |-> Len(techRooms)]

\* handleAddRoom: an empty name returns; the insert succeeds or fails
handleAddRoom ==
  /\ propertyId # 0
  /\ room_seq < MaxRooms
  /\ \E name \in RoomNameInputs, error_ \in BOOLEAN :
       IF trim(name) = "" \/ error_
       THEN UNCHANGED <<room, room_seq, techRooms>>
       ELSE /\ room' = room \cup {newRoomRow(name)}
            /\ room_seq' = room_seq + 1
            /\ techRooms' = Append(techRooms, newRoomRow(name))
  /\ UNCHANGED <<measurement, pageVars, call, linkVars,
                 property_table, saving, submitError, propertyId, form>>

\* prev.filter((r) => r.id !== id)
RECURSIVE filterRooms(_, _)
filterRooms(rows, id) ==
  IF rows = <<>> THEN <<>>
  ELSE IF Head(rows).id # id
       THEN <<Head(rows)>> \o filterRooms(Tail(rows), id)
       ELSE filterRooms(Tail(rows), id)

\* handleDeleteRoom of a room shown: not confirmed, or the delete succeeds or fails
handleDeleteRoom ==
  /\ propertyId # 0
  /\ \E i \in 1..Len(techRooms), confirmed \in BOOLEAN, error_ \in BOOLEAN :
       IF ~confirmed \/ error_
       THEN UNCHANGED <<room, techRooms>>
       ELSE /\ room' = { r \in room : r.id # techRooms[i].id }
            /\ techRooms' = filterRooms(techRooms, techRooms[i].id)
  /\ UNCHANGED <<measurement, pageVars, call, linkVars,
                 property_table, room_seq, saving, submitError, propertyId, form>>

\* a property created by the New Property page, its detail page loaded
InitRooms ==
  /\ measurement = <<>>
  /\ InitPage
  /\ call = NoCall
  /\ InitNoLink
  /\ property_table = { [id |-> 1, address |-> null] }
  /\ room = roomRows(1, 0)
  /\ room_seq = Len(defaultRooms)
  /\ saving = TRUE
  /\ submitError = "none"
  /\ propertyId = 1
  /\ techRooms \in orderedByIndex(room)
  /\ form = InitForm

NextRooms == fetchAll \/ handleAddRoom \/ handleDeleteRoom

SpecRooms == InitRooms /\ [][NextRooms]_vars

\* C28: after any sequence of handleAddRoom and handleDeleteRoom on a property
\* that starts with the default rooms, no two rooms of the property have the
\* same order_index.
C28_OrderIndexUnique ==
  \A r1 \in room, r2 \in room :
    (r1.property_id = r2.property_id /\ r1.id # r2.id) => r1.order_index # r2.order_index

\* ================================ property detail page: capture form
\* variant: only the category is changed
categoryChanged_keepMetric(prev, newCat) ==
  [prev EXCEPT !.category = newCat]

\* handleCategoryChange's update of form
categoryChanged(prev, newCat) ==
  [prev EXCEPT !.category = newCat,
               !.metric = metricOptions[newCat][1].key,
               !.unit = metricOptions[newCat][1].unit]

\* [...metricOptions.air, ...metricOptions.water, ...metricOptions.ether]
allMetricOptions == metricOptions.air \o metricOptions.water \o metricOptions.ether

\* handleMetricChange's update of form; an unknown key leaves it as it is
metricChanged(prev, newKey) ==
  LET found == { i \in 1..Len(allMetricOptions) : allMetricOptions[i].key = newKey }
  IN  IF found = {} THEN prev
      ELSE LET selected == allMetricOptions[CHOOSE i \in found : \A j \in found : i <= j]
           IN  [prev EXCEPT !.metric = selected.key, !.unit = selected.unit]

\* texts typed into the value field
ValueInputs == {"", "800"}

\* parseFloat(form.value), in tenths
parseFloat(text) == IF text = "800" THEN 8000 ELSE 0

handleCategoryChange ==
  /\ propertyId # 0
  /\ \E newCat \in CategoryKey : form' = categoryChanged(form, newCat)
  /\ UNCHANGED <<measurement, pageVars, call, linkVars,
                 property_table, room, room_seq, saving, submitError, propertyId, techRooms>>

\* the metric select offers the keys of the current category
handleMetricChange ==
  /\ propertyId # 0
  /\ \E i \in 1..Len(metricOptions[form.category]) :
       form' = metricChanged(form, metricOptions[form.category][i].key)
  /\ UNCHANGED <<measurement, pageVars, call, linkVars,
                 property_table, room, room_seq, saving, submitError, propertyId, techRooms>>

\* the room select (the empty option or the first room shown) and the value field
setFormField ==
  /\ propertyId # 0
  /\ \/ \E id \in {0} \cup { techRooms[i].id : i \in 1..Len(techRooms) } :
          /\ \A i \in 2..Len(techRooms) : techRooms[i].id # id
          /\ form' = [form EXCEPT !.room_id = id]
     \/ \E text \in ValueInputs : form' = [form EXCEPT !.value = text]
  /\ UNCHANGED <<measurement, pageVars, call, linkVars,
                 property_table, room, room_seq, saving, submitError, propertyId, techRooms>>

\* the payload handleAddMeasurement inserts
payload ==
  [property_id |-> propertyId, room_id |-> form.room_id, category |-> form.category,
   metric |-> form.metric, value |-> parseFloat(form.value), unit |-> form.unit]

\* handleAddMeasurement with the form of the detail page: an incomplete form
\* returns; the insert succeeds or fails
submitMeasurementForm ==
  /\ propertyId # 0
  /\ Len(measurement) < MaxCaptured
  /\ \E error_ \in BOOLEAN :
       IF form.room_id = 0 \/ form.metric = "" \/ form.value = "" \/ error_
       THEN UNCHANGED <<measurement, form>>
       ELSE /\ measurement' = Append(measurement, payload)
            /\ form' = [form EXCEPT !.value = ""]
  /\ UNCHANGED <<pageVars, call, linkVars,
                 property_table, room, room_seq, saving, submitError, propertyId, techRooms>>

InitCapture == InitRooms

NextCapture ==
  \/ handleCategoryChange
  \/ handleMetricChange
  \/ setFormField
  \/ submitMeasurementForm

SpecCapture == InitCapture /\ [][NextCapture]_vars

\* the unit metricOptions defines for a metric key of category cat
unitsOf(cat, key) ==
  { metricOptions[cat][i].unit :
      i \in { j \in 1..Len(metricOptions[cat]) : metricOptions[cat][j].key = key } }

\* C24: unit and category are locked to the metric: form.metric is a metric of
\* form.category with its defined unit, and every inserted row carries the
\* unit of its metric and the category the report derives from the metric key.
C24_UnitAndCategoryLocked ==
  /\ unitsOf(form.category, form.metric) = {form.unit}
  /\ \A i \in 1..Len(measurement) :
       LET row == measurement[i]
       IN  /\ row.metric \in MetricKey
           /\ row.category = getCategoryFromMetric(row.metric)
           /\ unitsOf(row.category, row.metric) = {row.unit}

\* a chlorine reading has been captured after a change of category and metric
C24_Witness ==
  /\ Len(measurement) >= 2
  /\ measurement[1].metric = "RF" /\ measurement[1].unit = "mW/m2"
  /\ measurement[2].metric = "Cl" /\ measurement[2].category = "water"
  /\ measurement[2].unit = "ppm"
  /\ form.category = "air" /\ form.metric = "Temp"

\* ====================================== report page: the labels rendered
\* lib/scoring/ether.ts
etherLabel(score) ==
  IF score >= 90 THEN "Excellent"
  ELSE IF score >= 80 THEN "Good"
  ELSE IF score >= 65 THEN "Moderate"
  ELSE IF score >= 40 THEN "Elevated"
  ELSE "High"

airLabel == scoreToLabel(airScore)
waterLabel == scoreToLabel(waterScore)
overallLabel == scoreToLabel(overallScore)

\* the label rendered in the two ether tiles: {etherLabel(etherScore)}
etherTileLabel == etherLabel(etherScore)

\* C25: the label shown next to each category score and next to the overall
\* score is the label of the five-band table for that score; in particular the
\* label shown for ether equals scoreToLabel(etherScore).
C25_LabelsFollowBands ==
  reportShown =>
    /\ airLabel = scoreToLabel(airScore)
    /\ waterLabel = scoreToLabel(waterScore)
    /\ overallLabel = scoreToLabel(overallScore)
    /\ etherTileLabel = scoreToLabel(etherScore)

\* C26: whenever fetchData has finished with an error, the report body with the
\* category and overall scores is not rendered.
C26_ErrorHidesReport ==
  (~loading /\ error # "none") => ~reportShown

\* ================================= report page: the room-by-room section
\* measurementsByRoom[roomId]: rows without room_id are skipped
measurementsByRoom(roomId) ==
  SelectSeq(measurements, LAMBDA m : m.room_id # "" /\ m.room_id = roomId)

unassignedMeasurements ==
  SelectSeq(measurements, LAMBDA m : m.room_id = "")

\* the rows listed by the section: one card per loaded room with
\* measurementsByRoom[room.id] || [], then the Whole-home / Unassigned card
RECURSIVE roomCards(_)
roomCards(rs) ==
  IF rs = <<>> THEN <<>>
  ELSE measurementsByRoom(Head(rs)) \o roomCards(Tail(rs))

roomByRoomListed == roomCards(rooms) \o unassignedMeasurements

\* how often row m is listed in the section
timesListed(m) ==
  Cardinality({ j \in 1..Len(roomByRoomListed) : roomByRoomListed[j] = m })

\* how often row m has been loaded
timesLoaded(m) ==
  Cardinality({ i \in 1..Len(measurements) : measurements[i] = m })

\* C29: every loaded measurement that contributes to the aggregated values is
\* listed in the room-by-room section exactly once, in the card of its room or
\* in the unassigned card, whatever the outcome of the room query.
C29_ListedExactlyOnce ==
  reportShown =>
    \A i \in 1..Len(measurements) :
      measurements[i].metric \in MetricKey =>
        timesListed(measurements[i]) = timesLoaded(measurements[i])

\* ============================================ category summaries
\* A summary is the sequence of its parts (joined with "; " by the code) or the
\* one perfect-case sentence. Values are in tenths of the unit.
summarizeAir(m) ==
  LET co2 == m["CO2"]
      pm25 == m["PM25"]
      pm10 == m["PM10"]
  IN  IF co2 <= 7000 /\ pm25 <= 90 /\ pm10 <= 300
      THEN << "Air quality is excellent across all measured pollutants." >>
      ELSE << IF co2 <= 7000 THEN "CO2 excellent"
              ELSE IF co2 <= 10000 THEN "CO2 acceptable"
              ELSE IF co2 <= 12000 THEN "CO2 elevated"
              ELSE IF co2 <= 15000 THEN "CO2 high"
              ELSE "CO2 very high",
              IF pm25 <= 90 THEN "PM2.5 ideal"
              ELSE IF pm25 <= 200 THEN "PM2.5 moderately elevated"
              ELSE IF pm25 <= 350 THEN "PM2.5 elevated"
              ELSE "PM2.5 high",
              IF pm10 <= 300 THEN "PM10 ideal"
              ELSE IF pm10 <= 500 THEN "PM10 moderate"
              ELSE "PM10 elevated" >>

summarizeWater(m) ==
  LET tds == m["TDS"]
      chlorine == m["Cl"]
      ph == m["pH"]
  IN  IF tds >= 1500 /\ tds <= 3000 /\ chlorine <= 5
      THEN << "Mineral-balanced; excellent for taste and hydration." >>
      ELSE << IF tds < 1500 THEN "Very low TDS (lacks beneficial minerals)"
              ELSE IF tds <= 3000 THEN "Mineral-balanced"
              ELSE IF tds <= 4500 THEN "Moderate TDS (slightly mineral-forward)"
              ELSE IF tds <= 6000 THEN "Hard water (suboptimal)"
              ELSE "High TDS (taste and scaling impacted)",
              IF chlorine > 15 THEN "Chlorine elevated"
              ELSE IF chlorine > 8 THEN "Chlorine moderate"
              ELSE "Chlorine low" >>
           \o (IF ph < 65 THEN << "pH acidic" >>
               ELSE IF ph > 90 THEN << "pH alkaline" >>
               ELSE <<>>)

summarizeEther(m) ==
  LET mag == m["MagField"]
      elec == m["ElectricField"]
      rf == m["RF"]
  IN  IF mag < 10 /\ elec < 50 /\ rf < 10
      THEN << "Magnetic, electric, and RF fields are all extremely low." >>
      ELSE << IF mag < 10 THEN "Magnetic fields low"
              ELSE IF mag < 30 THEN "Magnetic fields moderately elevated"
              ELSE "Magnetic fields elevated",
              IF elec < 50 THEN "Electric fields low"
              ELSE IF elec < 200 THEN "Electric fields elevated"
              ELSE "Electric fields high",
              IF rf < 10 THEN "RF exposure low"
              ELSE IF rf < 100 THEN "RF moderately elevated"
              ELSE IF rf < 500 THEN "RF elevated"
              ELSE "RF high relative to typical indoor levels" >>

airSummary == summarizeAir(M)
waterSummary == summarizeWater(M)
etherSummary == summarizeEther(M)

\* C30: whenever a category's summary is its perfect-case sentence for the
\* aggregated values, that category's score for the same values is at least 90.
C30_PerfectSummaryIsExcellent ==
  reportShown =>
    /\ airSummary = << "Air quality is excellent across all measured pollutants." >>
         => airScore >= 90
    /\ waterSummary = << "Mineral-balanced; excellent for taste and hydration." >>
         => waterScore >= 90
    /\ etherSummary = << "Magnetic, electric, and RF fields are all extremely low." >>
         => etherScore >= 90

====
